---- MODULE Spec2Model ----
(***************************************************************************)
(* A model of the MCP tool gateway of src/app/[transport]/route.ts: the    *)
(* in-memory fixed-window rate limiter (rateLimit), the request guard      *)
(* (middleware), the exported POST handler, and the tool handlers that     *)
(* server.tool registers together with the adapters they await             *)
(* (src/integrations).                                                     *)
(*                                                                         *)
(* Times are milliseconds, as returned by Date.now().                      *)
(***************************************************************************)
EXTENDS Integers, FiniteSets, Sequences, TLC

VARIABLES
    now,            \* the value Date.now() returns
    rateLimitMap,   \* route.ts:34, a function from the keys present to entries
    winStart,       \* observer: start of each key's fixed window, by the clock alone
    winCalls,       \* observer: rateLimit calls of each key in that fixed window
    log,            \* observer: per key, time -> [calls, passes] over the last 60 s
    last,           \* observer: the rateLimit call just made at this clock value
    ALLOWED_API_KEY,\* process.env.ALLOWED_API_KEY, read once at route.ts:63
    req,            \* the request most recently handed to middleware or to POST
    response,       \* what middleware returned for req; NotRun if it has not run on req
    invoked,        \* the tool whose handler ran for req; "none" if none did
    calls,          \* the tool calls in flight: per call, where its handler stands
    inflight,       \* the requests received whose middleware has not run yet
    share,          \* a shareDriveFile call: its loop, and the file's permissions
    doc             \* an updateGoogleDocContent call and the batch it sent

vars == <<now, rateLimitMap, winStart, winCalls, log, last,
          ALLOWED_API_KEY, req, response, invoked, calls, inflight,
          share, doc>>

limiterObservers == <<winStart, winCalls, log>>

guardVars == <<ALLOWED_API_KEY, req, response, invoked>>

driveVars == <<share, doc>>

toolVars == <<calls, inflight, driveVars>>

(***************************************************************************)
(* Program constants.                                                      *)
(***************************************************************************)
RATE_LIMIT == 100

RATE_LIMIT_WINDOW == 60 * 1000

(***************************************************************************)
(* Bounds of the model.                                                    *)
(***************************************************************************)
\* The clock horizon: Date.now() is explored up to this value.
MaxNow == 120000

\* rateLimit calls the busy client issues inside one fixed window.
MaxCalls == 102

\* rateLimit calls any other client issues inside one fixed window.
MaxOther == 1

\* Tool calls that can be in flight at once.
MaxInFlight == 2

\* The longest permissions list passed to shareDriveFile.
MaxPerms == 3

\* The largest endIndex a document's last element reports.
MaxEndIndex == 5

\* The amounts by which the clock advances between two calls: just inside,
\* exactly on, and just past the window boundary.
TickSteps == {RATE_LIMIT_WINDOW - 1, RATE_LIMIT_WINDOW, RATE_LIMIT_WINDOW + 1}

\* The client keys (the values middleware passes to rateLimit).
Keys == {"1.2.3.4", "unknown"}

\* The client whose calls are explored past the limit.
Busy == "1.2.3.4"

\* A header that is not present: Headers.get returns null.
null == "<null>"

\* An environment variable that is not set.
undefined == "<undefined>"

\* The values ALLOWED_API_KEY takes: not configured, or configured.
EnvKeys == {undefined, "secret"}

\* The requests: every combination of the four headers middleware reads.
Requests ==
    [proto : {null, "http", "https"},
     apiKey : {null, "", "secret", "wrong"},
     ip : {null, "", "1.2.3.4"},
     origin : {null, "", "https://your-trusted-origin.com", "https://evil.example"}]


(***************************************************************************)
(* rateLimit (route.ts:38-54), as a function of the map, the key and the   *)
(* clock: the boolean it returns and the map it leaves behind.             *)
(***************************************************************************)
\* A set that keeps no entry but the one it writes.
MapSet_Alone(map, ip, entry) == [j \in {ip} |-> entry]

MapSet(map, ip, entry) ==
    [j \in DOMAIN map \cup {ip} |-> IF j = ip THEN entry ELSE map[j]]

(***************************************************************************)
(* Variants of rateLimit with one plausible slip each.                     *)
(***************************************************************************)
\* The limit test written count > RATE_LIMIT.
rateLimit_GtLimit(map, ip, t) ==
    IF ip \notin DOMAIN map
    THEN [limited |-> FALSE, map |-> MapSet(map, ip, [count |-> 1, start |-> t])]
    ELSE IF t - map[ip].start > RATE_LIMIT_WINDOW
    THEN [limited |-> FALSE, map |-> MapSet(map, ip, [count |-> 1, start |-> t])]
    ELSE IF map[ip].count > RATE_LIMIT
    THEN [limited |-> TRUE, map |-> map]
    ELSE [limited |-> FALSE,
          map |-> MapSet(map, ip, [count |-> map[ip].count + 1, start |-> map[ip].start])]

\* The limit test off by one: count >= RATE_LIMIT - 1.
rateLimit_LimitOffByOne(map, ip, t) ==
    IF ip \notin DOMAIN map
    THEN [limited |-> FALSE, map |-> MapSet(map, ip, [count |-> 1, start |-> t])]
    ELSE IF t - map[ip].start > RATE_LIMIT_WINDOW
    THEN [limited |-> FALSE, map |-> MapSet(map, ip, [count |-> 1, start |-> t])]
    ELSE IF map[ip].count >= RATE_LIMIT - 1
    THEN [limited |-> TRUE, map |-> map]
    ELSE [limited |-> FALSE,
          map |-> MapSet(map, ip, [count |-> map[ip].count + 1, start |-> map[ip].start])]

\* The limit test placed before the window test.
rateLimit_LimitBeforeExpiry(map, ip, t) ==
    IF ip \notin DOMAIN map
    THEN [limited |-> FALSE, map |-> MapSet(map, ip, [count |-> 1, start |-> t])]
    ELSE IF map[ip].count >= RATE_LIMIT
    THEN [limited |-> TRUE, map |-> map]
    ELSE IF t - map[ip].start > RATE_LIMIT_WINDOW
    THEN [limited |-> FALSE, map |-> MapSet(map, ip, [count |-> 1, start |-> t])]
    ELSE [limited |-> FALSE,
          map |-> MapSet(map, ip, [count |-> map[ip].count + 1, start |-> map[ip].start])]

\* The count incremented before the limit test, limited calls included.
rateLimit_CountLimited(map, ip, t) ==
    IF ip \notin DOMAIN map
    THEN [limited |-> FALSE, map |-> MapSet(map, ip, [count |-> 1, start |-> t])]
    ELSE IF t - map[ip].start > RATE_LIMIT_WINDOW
    THEN [limited |-> FALSE, map |-> MapSet(map, ip, [count |-> 1, start |-> t])]
    ELSE [limited |-> map[ip].count >= RATE_LIMIT,
          map |-> MapSet(map, ip, [count |-> map[ip].count + 1, start |-> map[ip].start])]

\* A limited call restarts the window it was limited in.
rateLimit_LimitedRestarts(map, ip, t) ==
    IF ip \notin DOMAIN map
    THEN [limited |-> FALSE, map |-> MapSet(map, ip, [count |-> 1, start |-> t])]
    ELSE IF t - map[ip].start > RATE_LIMIT_WINDOW
    THEN [limited |-> FALSE, map |-> MapSet(map, ip, [count |-> 1, start |-> t])]
    ELSE IF map[ip].count >= RATE_LIMIT
    THEN [limited |-> TRUE,
          map |-> MapSet(map, ip, [count |-> map[ip].count, start |-> t])]
    ELSE [limited |-> FALSE,
          map |-> MapSet(map, ip, [count |-> map[ip].count + 1, start |-> map[ip].start])]

\* The window test written t - start >= RATE_LIMIT_WINDOW.
rateLimit_ResetOnBoundary(map, ip, t) ==
    IF ip \notin DOMAIN map
    THEN [limited |-> FALSE, map |-> MapSet(map, ip, [count |-> 1, start |-> t])]
    ELSE IF t - map[ip].start >= RATE_LIMIT_WINDOW
    THEN [limited |-> FALSE, map |-> MapSet(map, ip, [count |-> 1, start |-> t])]
    ELSE IF map[ip].count >= RATE_LIMIT
    THEN [limited |-> TRUE, map |-> map]
    ELSE [limited |-> FALSE,
          map |-> MapSet(map, ip, [count |-> map[ip].count + 1, start |-> map[ip].start])]

\* A reset that starts the new window's count at 0.
rateLimit_ResetToZero(map, ip, t) ==
    IF ip \notin DOMAIN map
    THEN [limited |-> FALSE, map |-> MapSet(map, ip, [count |-> 1, start |-> t])]
    ELSE IF t - map[ip].start > RATE_LIMIT_WINDOW
    THEN [limited |-> FALSE, map |-> MapSet(map, ip, [count |-> 0, start |-> t])]
    ELSE IF map[ip].count >= RATE_LIMIT
    THEN [limited |-> TRUE, map |-> map]
    ELSE [limited |-> FALSE,
          map |-> MapSet(map, ip, [count |-> map[ip].count + 1, start |-> map[ip].start])]

rateLimit(map, ip, t) ==
    IF ip \notin DOMAIN map
    THEN [limited |-> FALSE, map |-> MapSet(map, ip, [count |-> 1, start |-> t])]
    ELSE IF t - map[ip].start > RATE_LIMIT_WINDOW
    THEN [limited |-> FALSE, map |-> MapSet(map, ip, [count |-> 1, start |-> t])]
    ELSE IF map[ip].count >= RATE_LIMIT
    THEN [limited |-> TRUE, map |-> map]
    ELSE [limited |-> FALSE,
          map |-> MapSet(map, ip, [count |-> map[ip].count + 1, start |-> map[ip].start])]

(***************************************************************************)
(* Observers of the limiter. They read the clock and the calls, never the  *)
(* limiter's own map.                                                      *)
(***************************************************************************)
NoCall == [ip |-> "none", limited |-> FALSE, had |-> FALSE, prevCount |-> 0, prevStart |-> 0]

NoLog == [t \in {} |-> [calls |-> 0, passes |-> 0]]

\* Whether a call of key ip at time t opens a new fixed window.
OpensWindow(ip, t) ==
    \/ winCalls[ip] = 0
    \/ t - winStart[ip] > RATE_LIMIT_WINDOW

LogAdd(l, t, passed) ==
    LET old == IF t \in DOMAIN l THEN l[t] ELSE [calls |-> 0, passes |-> 0]
        new == [calls |-> old.calls + 1,
                passes |-> old.passes + (IF passed THEN 1 ELSE 0)]
    IN  [u \in DOMAIN l \cup {t} |-> IF u = t THEN new ELSE l[u]]

LogPrune(l, t) ==
    [u \in {v \in DOMAIN l : v >= t - RATE_LIMIT_WINDOW} |-> l[u]]

RECURSIVE SumCalls(_, _)
SumCalls(l, S) ==
    IF S = {} THEN 0
    ELSE LET u == CHOOSE v \in S : TRUE IN l[u].calls + SumCalls(l, S \ {u})

RECURSIVE SumPasses(_, _)
SumPasses(l, S) ==
    IF S = {} THEN 0
    ELSE LET u == CHOOSE v \in S : TRUE IN l[u].passes + SumPasses(l, S \ {u})

\* The calls (passes) of a log inside the closed interval [lo, hi].
CallsIn(l, lo, hi) == SumCalls(l, {u \in DOMAIN l : lo <= u /\ u <= hi})

PassesIn(l, lo, hi) == SumPasses(l, {u \in DOMAIN l : lo <= u /\ u <= hi})

(***************************************************************************)
(* The request guard (route.ts:56-95).                                     *)
(***************************************************************************)
ALLOWED_ORIGINS == {"https://your-trusted-origin.com", "http://localhost:3000"}

\* A key list that reads the unset variable as the text "undefined".
VALID_API_KEYS_Stringified(env) == {IF env = undefined THEN "undefined" ELSE env}

VALID_API_KEYS(env) == {env}

\* JavaScript's falsy header values: null and the empty string.
Falsy(h) == h \in {null, ""}

HttpsRequired == [status |-> 403, body |-> "HTTPS required"]

Unauthorized == [status |-> 401, body |-> "Unauthorized"]

TooManyRequests == [status |-> 429, body |-> "Too Many Requests"]

CorsNotAllowed == [status |-> 403, body |-> "CORS not allowed"]

Pass == [status |-> 200, body |-> "NextResponse.next"]

NotRun == [status |-> 0, body |-> "middleware not run"]

NoRequest == [proto |-> "-", apiKey |-> "-", ip |-> "-", origin |-> "-"]

\* One bucket for every caller, with or without an address.
ClientKey_OneBucket(r) == "unknown"

\* The key middleware hands to rateLimit (route.ts:78).
ClientKey(r) == IF Falsy(r.ip) THEN "unknown" ELSE r.ip

\* What a rateLimit call looked like: the key, the result, the entry it found.
CallOf(map, ip, limited) ==
    [ip |-> ip, limited |-> limited, had |-> ip \in DOMAIN map,
     prevCount |-> IF ip \in DOMAIN map THEN map[ip].count ELSE 0,
     prevStart |-> IF ip \in DOMAIN map THEN map[ip].start ELSE 0]

TransportFails(r) == r.proto # "https"

CredentialFails(r, env) == Falsy(r.apiKey) \/ r.apiKey \notin VALID_API_KEYS(env)

\* An origin test that exempts only the absent header.
OriginFails_AbsentOnly(r) == r.origin # null /\ r.origin \notin ALLOWED_ORIGINS

OriginFails(r) == ~Falsy(r.origin) /\ r.origin \notin ALLOWED_ORIGINS

\* The rate check and what follows it (route.ts:77-94).
RateThenOrigin(r, map, t) ==
    LET rl == rateLimit(map, ClientKey(r), t)
        call == CallOf(map, ClientKey(r), rl.limited)
    IN  IF rl.limited
        THEN [response |-> TooManyRequests, map |-> rl.map, call |-> call]
        ELSE IF OriginFails(r)
        THEN [response |-> CorsNotAllowed, map |-> rl.map, call |-> call]
        ELSE [response |-> Pass, map |-> rl.map, call |-> call]

\* Variants of middleware with one plausible slip each.
\* The rate check placed between the transport and the credential check.
middleware_RateBeforeAuth(r, env, map, t) ==
    IF TransportFails(r)
    THEN [response |-> HttpsRequired, map |-> map, call |-> NoCall]
    ELSE LET rl == rateLimit(map, ClientKey(r), t)
         IN  IF rl.limited
             THEN [response |-> TooManyRequests, map |-> rl.map,
                   call |-> CallOf(map, ClientKey(r), TRUE)]
             ELSE IF CredentialFails(r, env)
             THEN [response |-> Unauthorized, map |-> rl.map, call |-> NoCall]
             ELSE IF OriginFails(r)
             THEN [response |-> CorsNotAllowed, map |-> rl.map,
                   call |-> CallOf(map, ClientKey(r), FALSE)]
             ELSE [response |-> Pass, map |-> rl.map,
                   call |-> CallOf(map, ClientKey(r), FALSE)]

\* The origin check placed before the rate check.
middleware_OriginBeforeRate(r, env, map, t) ==
    IF TransportFails(r)
    THEN [response |-> HttpsRequired, map |-> map, call |-> NoCall]
    ELSE IF CredentialFails(r, env)
    THEN [response |-> Unauthorized, map |-> map, call |-> NoCall]
    ELSE IF OriginFails(r)
    THEN [response |-> CorsNotAllowed, map |-> map, call |-> NoCall]
    ELSE LET rl == rateLimit(map, ClientKey(r), t)
         IN  [response |-> IF rl.limited THEN TooManyRequests ELSE Pass,
              map |-> rl.map, call |-> CallOf(map, ClientKey(r), rl.limited)]

\* The credential check placed before the transport check.
middleware_AuthFirst(r, env, map, t) ==
    IF CredentialFails(r, env)
    THEN [response |-> Unauthorized, map |-> map, call |-> NoCall]
    ELSE IF TransportFails(r)
    THEN [response |-> HttpsRequired, map |-> map, call |-> NoCall]
    ELSE RateThenOrigin(r, map, t)

\* The rate check placed first.
middleware_RateFirst(r, env, map, t) ==
    LET rl == rateLimit(map, ClientKey(r), t)
        call == CallOf(map, ClientKey(r), rl.limited)
    IN  IF rl.limited
        THEN [response |-> TooManyRequests, map |-> rl.map, call |-> call]
        ELSE IF TransportFails(r)
        THEN [response |-> HttpsRequired, map |-> rl.map, call |-> call]
        ELSE IF CredentialFails(r, env)
        THEN [response |-> Unauthorized, map |-> rl.map, call |-> call]
        ELSE IF OriginFails(r)
        THEN [response |-> CorsNotAllowed, map |-> rl.map, call |-> call]
        ELSE [response |-> Pass, map |-> rl.map, call |-> call]

\* The origin check placed before the credential check.
middleware_OriginBeforeAuth(r, env, map, t) ==
    IF TransportFails(r)
    THEN [response |-> HttpsRequired, map |-> map, call |-> NoCall]
    ELSE IF OriginFails(r)
    THEN [response |-> CorsNotAllowed, map |-> map, call |-> NoCall]
    ELSE IF CredentialFails(r, env)
    THEN [response |-> Unauthorized, map |-> map, call |-> NoCall]
    ELSE RateThenOrigin(r, map, t)

\* middleware (route.ts:65-95): the response, the map left behind, and the
\* rateLimit call made, if any.
middleware(r, env, map, t) ==
    IF TransportFails(r)
    THEN [response |-> HttpsRequired, map |-> map, call |-> NoCall]
    ELSE IF CredentialFails(r, env)
    THEN [response |-> Unauthorized, map |-> map, call |-> NoCall]
    ELSE RateThenOrigin(r, map, t)

(***************************************************************************)
(* The tools registered with createMcpHandler (route.ts:97-511), in the    *)
(* order of the server.tool calls.                                         *)
(***************************************************************************)
\* A registration list in which one name is registered twice and the other
\* names are missing.
Registry_Twice == <<"Notion Fetch", "Notion Fetch">>

Registry ==
    << "Notion Fetch", "Notion List Databases", "Notion List Database Entries",
       "Notion Query Database", "Notion Fetch Page Content",
       "Notion Get Database Schema", "Googdrive List Docs", "Googdrive Search Docs",
       "Googdrive Doc Metadata", "Googdrive Export Doc As Text",
       "Google Drive List Files", "Google Drive Search Files",
       "Google Drive Get Metadata", "Google Drive Download File",
       "Google Drive Create File", "Google Drive Update File",
       "Google Drive Delete File", "Google Drive List Folders",
       "Google Drive Share File", "Google Drive List Revisions",
       "Googdrive Copy File", "Googdocs Update Content", "GitHub List Repos",
       "GitHub Fetch README", "GitHub Fetch File", "Web Search",
       "Search Company Culture" >>

ToolNames == {Registry[i] : i \in DOMAIN Registry}

\* The tool names the README lists under "Available API Tools & Endpoints".
ReadmeTools ==
    {"Notion Fetch", "Notion List Databases", "Notion List Database Entries",
     "Notion Query Database", "Notion Fetch Page Content",
     "Notion Get Database Schema",
     "Googdrive List Docs", "Googdrive Search Docs", "Googdrive Doc Metadata",
     "Googdrive Export Doc As Text", "Google Drive List Files",
     "Google Drive Search Files", "Google Drive Get Metadata",
     "Google Drive Download File", "Google Drive Create File",
     "Google Drive Update File", "Google Drive Delete File",
     "Google Drive List Folders", "Google Drive Share File",
     "Google Drive List Revisions", "Googdrive Copy File",
     "Googdocs Update Content",
     "GitHub List Repos", "GitHub Fetch README", "GitHub Fetch File",
     "Web Search", "Search Company Culture"}

\* Names a caller may ask for that no server.tool call registers.
UnregisteredNames == {"notion fetch", "No Such Tool"}

\* The tool names the modelled callers ask for.
CalledNames ==
    {"Notion Fetch", "Google Drive Share File", "Web Search"} \cup UnregisteredNames

(***************************************************************************)
(* The adapters of src/integrations. Each makes its backend request(s) and *)
(* either returns a JavaScript value or throws.                            *)
(***************************************************************************)
\* The messages of the errors a backend client may throw; "" is an Error
\* constructed without a message.
ThrownMessages == {"", "Not Found"}

\* The result lists a backend may send.
ItemLists == {<<>>, <<"e1">>, <<"e1", "e2">>}

\* The next_cursor of a Notion list response: null, or a cursor string.
Cursors == {null, "", "cur-2"}

\* What the backend does for one adapter call: whether the (first) request
\* fails and with what message, whether the follow-up request for a page's
\* blocks fails, whether the response body lacks its list field, and the
\* list, has_more and next_cursor it carries.
Backend ==
    [fails : BOOLEAN, message : ThrownMessages, blocksFail : BOOLEAN,
     absent : BOOLEAN, items : ItemLists, has_more : BOOLEAN,
     next_cursor : Cursors]

\* JavaScript values, by the properties the handlers read. An array has no
\* error property; `items` is an array's elements or an object's results.
JsObject ==
    [t |-> "object", error |-> undefined, items |-> <<>>,
     nextCursor |-> undefined, success |-> undefined,
     title |-> undefined, body |-> undefined]

JsUndefined == [JsObject EXCEPT !.t = "undefined"]

JsArray(items) == [JsObject EXCEPT !.t = "array", !.items = items]

JsString(s) == [JsObject EXCEPT !.t = "string", !.body = s]

\* How an awaited adapter call settles.
Returned(v) == [thrown |-> FALSE, message |-> undefined, value |-> v]

Thrown(m) == [thrown |-> TRUE, message |-> m, value |-> JsUndefined]

\* error.message || String(error): String of an Error without a message is
\* "Error".
errorMessage(b) == IF b.message = "" THEN "Error" ELSE b.message

\* { error: error.message || String(error) }
ErrorObject(b) == [JsObject EXCEPT !.error = errorMessage(b)]

RECURSIVE join(_, _)
\* Array.prototype.join
join(items, sep) ==
    IF items = <<>> THEN ""
    ELSE IF Len(items) = 1 THEN items[1]
    ELSE items[1] \o sep \o join(Tail(items), sep)

fetchNotionContent(b) ==
    IF b.fails
    THEN Returned([JsObject EXCEPT !.title = "Error fetching Notion page",
                                   !.body = errorMessage(b)])
    ELSE Returned([JsObject EXCEPT
             !.title = "Untitled",
             !.body = IF b.blocksFail
                      THEN "(Unable to fetch page content blocks)"
                      ELSE join(b.items, "\n")])

listNotionDatabases(b) ==
    Returned(JsArray(IF b.fails THEN <<>> ELSE b.items))

listNotionDatabaseEntries(b) ==
    IF b.fails
    THEN Returned(ErrorObject(b))
    ELSE Returned([JsObject EXCEPT
             !.items = b.items,
             !.nextCursor = IF b.has_more /\ ~Falsy(b.next_cursor)
                            THEN b.next_cursor ELSE undefined])

\* A query adapter that hands on next_cursor whatever has_more says.
queryNotionDatabase_IgnoresHasMore(b) ==
    IF b.fails
    THEN Returned(ErrorObject(b))
    ELSE Returned([JsObject EXCEPT
             !.items = b.items,
             !.nextCursor = IF ~Falsy(b.next_cursor)
                            THEN b.next_cursor ELSE undefined])

queryNotionDatabase(b) ==
    IF b.fails
    THEN Returned(ErrorObject(b))
    ELSE Returned([JsObject EXCEPT
             !.items = b.items,
             !.nextCursor = IF b.has_more /\ ~Falsy(b.next_cursor)
                            THEN b.next_cursor ELSE undefined])

fetchNotionPageContent(b) ==
    IF b.fails
    THEN Returned(ErrorObject(b))
    ELSE Returned([JsObject EXCEPT
             !.items = IF b.blocksFail THEN <<>> ELSE b.items])

getNotionDatabaseSchema(b) ==
    IF b.fails THEN Returned(ErrorObject(b))
    ELSE Returned([JsObject EXCEPT !.items = IF b.absent THEN <<>> ELSE b.items])

\* listGoogleDocs, searchGoogleDocs, listDriveFiles, searchDriveFiles and
\* listDriveFolders: (res.data.files || []).map(...), or { error }.
driveFilesList(b) ==
    IF b.fails THEN Returned(ErrorObject(b))
    ELSE Returned(JsArray(IF b.absent THEN <<>> ELSE b.items))

fetchGoogleDocMetadata(b) ==
    IF b.fails THEN Returned(ErrorObject(b))
    ELSE IF b.absent
    THEN Returned([JsObject EXCEPT
             !.error = "File not found or missing metadata."])
    ELSE Returned([JsObject EXCEPT !.title = "doc"])

\* exportGoogleDocAsText and downloadDriveFile: { content: res.data }.
driveContent(b) ==
    IF b.fails THEN Returned(ErrorObject(b))
    ELSE Returned([JsObject EXCEPT !.body = join(b.items, "")])

\* getDriveFileMetadata, createDriveFile, updateDriveFile and copyDriveFile:
\* res.data, or { error }.
driveFileData(b) ==
    IF b.fails THEN Returned(ErrorObject(b))
    ELSE Returned([JsObject EXCEPT !.title = "file"])

\* deleteDriveFile and updateGoogleDocContent: { success: true }, or { error }.
driveSuccess(b) ==
    IF b.fails THEN Returned(ErrorObject(b))
    ELSE Returned([JsObject EXCEPT !.success = "true"])

shareDriveFile(b) ==
    IF b.fails THEN Returned(ErrorObject(b))
    ELSE Returned(JsArray(b.items))

\* res.data.revisions: undefined when the response body has no such field.
listDriveFileRevisions(b) ==
    IF b.fails THEN Returned(ErrorObject(b))
    ELSE IF b.absent THEN Returned(JsUndefined)
    ELSE Returned(JsArray(b.items))

\* No try/catch: what octokit throws leaves the adapter.
listGithubRepos(b) ==
    IF b.fails THEN Thrown(b.message) ELSE Returned(JsArray(b.items))

fetchGithubReadme(b) ==
    IF b.fails THEN Thrown(b.message) ELSE Returned(JsString(join(b.items, "")))

fetchGithubFile(b) ==
    IF b.fails THEN Thrown(b.message)
    ELSE IF b.absent THEN Thrown("Unsupported file type or missing content")
    ELSE Returned(JsString(join(b.items, "")))

\* data.organic_results?.map(...) || []; what axios throws leaves the adapter.
webSearch(b) ==
    IF b.fails THEN Thrown(b.message)
    ELSE Returned(JsArray(IF b.absent THEN <<>> ELSE b.items))

searchCompanyCulture(b) == webSearch(b)

(***************************************************************************)
(* The tool handlers of route.ts:97-511. A handler ends by returning a     *)
(* ToolResult ({ content, nextCursor? }) or by throwing.                   *)
(***************************************************************************)
Content(blocks) ==
    [thrown |-> FALSE, message |-> undefined, content |-> blocks,
     nextCursor |-> undefined]

\* { content: [{ type: "text", text: `Error: ${m}` }] }
ErrorResult(m) == Content(<<"Error: " \o m>>)

\* The handler's promise rejects.
Throws(m) == [thrown |-> TRUE, message |-> m, content |-> <<>>,
              nextCursor |-> undefined]

\* Reading a property of undefined, or `in` on a value that is no object.
TypeError == "TypeError"

\* A template literal's ${x}.
Str(x) == IF x = undefined THEN "undefined" ELSE x

\* items.map(x => ({ type: "text", text: `${x}${suffix}` }))
mapText(items, suffix) == [i \in DOMAIN items |-> items[i] \o suffix]

\* JSON.stringify of one entry, and of a list of entries.
JSONstringify(item) == "{\"id\":\"" \o item \o "\"}"

JSONstringifyAll(items) ==
    "[" \o join([i \in DOMAIN items |-> JSONstringify(items[i])], ",") \o "]"

\* const result = await adapter(); if (result.error) return Error...;
\* return ok. Nothing catches what the adapter or the property read throws.
ifDotError(out, ok) ==
    IF out.thrown THEN Throws(out.message)
    ELSE IF out.value.t = "undefined" THEN Throws(TypeError)
    ELSE IF out.value.error \notin {undefined, ""}
    THEN ErrorResult(out.value.error)
    ELSE ok

\* const result = await adapter(); if ('error' in result) return Error...;
\* return ok.
ifErrorIn(out, ok) ==
    IF out.thrown THEN Throws(out.message)
    ELSE IF out.value.t \in {"undefined", "string"} THEN Throws(TypeError)
    ELSE IF out.value.error # undefined THEN ErrorResult(Str(out.value.error))
    ELSE ok

\* try { const r = await adapter(); return ok } catch (e) { return Error... }
tryCatch(out, ok) ==
    IF out.thrown THEN ErrorResult(Str(out.message)) ELSE ok

NotionFetch(out) ==
    IF out.thrown THEN Throws(out.message)
    ELSE Content(<<Str(out.value.title), Str(out.value.body)>>)

NotionListDatabases(out) ==
    IF out.thrown THEN Throws(out.message)
    ELSE Content(mapText(out.value.items, ": Untitled"))

\* "Notion List Database Entries" and "Notion Query Database".
NotionPage(out) ==
    ifDotError(out,
        [Content([i \in DOMAIN out.value.items |->
                     JSONstringify(out.value.items[i])])
            EXCEPT !.nextCursor = out.value.nextCursor])

NotionFetchPageContent(out) ==
    ifDotError(out, Content(<<"Properties: {}",
                              "Blocks: " \o JSONstringifyAll(out.value.items)>>))

NotionGetDatabaseSchema(out) ==
    ifDotError(out, Content(<<"Schema: " \o JSONstringifyAll(out.value.items)>>))

\* The listing tools of Drive: one block per file.
DriveList(out, suffix) ==
    ifErrorIn(out, Content(mapText(out.value.items, suffix)))

GoogdriveDocMetadata(out) ==
    ifErrorIn(out, Content(<<"ID: " \o Str(out.value.title),
                             "Name: " \o Str(out.value.title),
                             "MimeType: " \o Str(out.value.title)>>))

GoogdriveExportDocAsText(out) ==
    ifErrorIn(out, Content(<<Str(out.value.body)>>))

\* return { content: [{ text: JSON.stringify(result) }] } after the
\* result.error test: Get Metadata, Create File, Update File, Share File,
\* List Revisions.
DriveStringify(out) ==
    ifDotError(out,
        Content(<<IF out.value.t = "array"
                  THEN JSONstringifyAll(out.value.items)
                  ELSE JSONstringify(Str(out.value.title))>>))

GoogleDriveDownloadFile(out) ==
    ifErrorIn(out, Content(<<"File content fetched (length: 0)">>))

GoogleDriveDeleteFile(out) ==
    ifErrorIn(out, Content(<<"Success: " \o Str(out.value.success)>>))

GoogdriveCopyFile(out) ==
    ifDotError(out, Content(<<"Copied file ID: " \o Str(out.value.title),
                              "Name: " \o Str(out.value.title),
                              "MimeType: " \o Str(out.value.title)>>))

GoogdocsUpdateContent(out) ==
    IF out.thrown THEN Throws(out.message)
    ELSE IF out.value.t \in {"undefined", "string"} THEN Throws(TypeError)
    ELSE IF out.value.success # "true"
    THEN ErrorResult(IF out.value.error \in {undefined, ""}
                     THEN "Unknown error" ELSE out.value.error)
    ELSE Content(<<"Success: content updated for doc d1">>)

GitHubListRepos(out) ==
    tryCatch(out, Content(mapText(out.value.items, ": null")))

\* "GitHub Fetch README" and "GitHub Fetch File".
GitHubFetch(out) == tryCatch(out, Content(<<Str(out.value.body)>>))

\* "Web Search" and "Search Company Culture".
WebSearch(out) ==
    tryCatch(out, Content(mapText(out.value.items, "\nlink\nsnippet")))

\* What the adapter a tool awaits does, given the backend's behaviour.
Adapter(name, b) ==
    CASE name = "Notion Fetch" -> fetchNotionContent(b)
      [] name = "Notion List Databases" -> listNotionDatabases(b)
      [] name = "Notion List Database Entries" -> listNotionDatabaseEntries(b)
      [] name = "Notion Query Database" -> queryNotionDatabase(b)
      [] name = "Notion Fetch Page Content" -> fetchNotionPageContent(b)
      [] name = "Notion Get Database Schema" -> getNotionDatabaseSchema(b)
      [] name \in {"Googdrive List Docs", "Googdrive Search Docs",
                   "Google Drive List Files", "Google Drive Search Files",
                   "Google Drive List Folders"} -> driveFilesList(b)
      [] name = "Googdrive Doc Metadata" -> fetchGoogleDocMetadata(b)
      [] name \in {"Googdrive Export Doc As Text",
                   "Google Drive Download File"} -> driveContent(b)
      [] name \in {"Google Drive Get Metadata", "Google Drive Create File",
                   "Google Drive Update File", "Googdrive Copy File"}
            -> driveFileData(b)
      [] name \in {"Google Drive Delete File", "Googdocs Update Content"}
            -> driveSuccess(b)
      [] name = "Google Drive Share File" -> shareDriveFile(b)
      [] name = "Google Drive List Revisions" -> listDriveFileRevisions(b)
      [] name = "GitHub List Repos" -> listGithubRepos(b)
      [] name = "GitHub Fetch README" -> fetchGithubReadme(b)
      [] name = "GitHub Fetch File" -> fetchGithubFile(b)
      [] name = "Web Search" -> webSearch(b)
      [] name = "Search Company Culture" -> searchCompanyCulture(b)

\* The callback server.tool registers under a name, applied to what its
\* adapter call settled with.
Handler(name, out) ==
    CASE name = "Notion Fetch" -> NotionFetch(out)
      [] name = "Notion List Databases" -> NotionListDatabases(out)
      [] name \in {"Notion List Database Entries", "Notion Query Database"}
            -> NotionPage(out)
      [] name = "Notion Fetch Page Content" -> NotionFetchPageContent(out)
      [] name = "Notion Get Database Schema" -> NotionGetDatabaseSchema(out)
      [] name \in {"Googdrive List Docs", "Googdrive Search Docs",
                   "Google Drive List Folders"} -> DriveList(out, ": name")
      [] name \in {"Google Drive List Files", "Google Drive Search Files"}
            -> DriveList(out, ": name (mimeType)")
      [] name = "Googdrive Doc Metadata" -> GoogdriveDocMetadata(out)
      [] name = "Googdrive Export Doc As Text" -> GoogdriveExportDocAsText(out)
      [] name \in {"Google Drive Get Metadata", "Google Drive Create File",
                   "Google Drive Update File", "Google Drive Share File",
                   "Google Drive List Revisions"} -> DriveStringify(out)
      [] name = "Google Drive Download File" -> GoogleDriveDownloadFile(out)
      [] name = "Google Drive Delete File" -> GoogleDriveDeleteFile(out)
      [] name = "Googdrive Copy File" -> GoogdriveCopyFile(out)
      [] name = "Googdocs Update Content" -> GoogdocsUpdateContent(out)
      [] name = "GitHub List Repos" -> GitHubListRepos(out)
      [] name \in {"GitHub Fetch README", "GitHub Fetch File"}
            -> GitHubFetch(out)
      [] name \in {"Web Search", "Search Company Culture"} -> WebSearch(out)

\* One tool call from the handler's entry to its end.
ToolHandler(name, b) == Handler(name, Adapter(name, b))

(***************************************************************************)
(* Tool calls in flight. A handler runs up to its await, is suspended      *)
(* while its adapter waits for the backend, and is resumed with what the   *)
(* adapter settled with. Between the two steps the event loop runs other   *)
(* calls.                                                                  *)
(***************************************************************************)
CallIds == 1 .. MaxInFlight

NoBackend ==
    [fails |-> FALSE, message |-> "", blocksFail |-> FALSE, absent |-> FALSE,
     items |-> <<>>, has_more |-> FALSE, next_cursor |-> null]

NoResult == Content(<<>>)

NoToolCall ==
    [pc |-> "idle", tool |-> "none", backend |-> NoBackend, result |-> NoResult]

\* A continuation that keeps the ToolResult in a variable all handlers in
\* flight share.
resume_SharedResult(c, i) ==
    [j \in DOMAIN c |->
        IF j = i
        THEN [c[j] EXCEPT !.pc = "done",
                          !.result = ToolHandler(c[i].tool, c[i].backend)]
        ELSE IF c[j].pc = "idle" THEN c[j]
        ELSE [c[j] EXCEPT !.result = ToolHandler(c[i].tool, c[i].backend)]]

\* The handler's continuation after its await: it computes its ToolResult
\* from its own arguments and from what its own adapter call settled with,
\* all of them locals of the callback.
resume(c, i) ==
    [c EXCEPT ![i].pc = "done",
              ![i].result = ToolHandler(c[i].tool, c[i].backend)]

(***************************************************************************)
(* Requests of one client handled concurrently. A request is received, and *)
(* later the event loop runs its middleware, which is synchronous: it has  *)
(* no await between its first line and its return.                         *)
(***************************************************************************)
NotReceived ==
    [pc |-> "idle", req |-> NoRequest,
     seen |-> [k \in {} |-> [count |-> 0, start |-> 0]]]

\* The requests that race: they pass the transport and credential checks and
\* come from the busy client.
RaceRequests ==
    {r \in Requests : /\ r.proto = "https"
                      /\ r.apiKey = "secret"
                      /\ r.ip = Busy
                      /\ r.origin = null}

\* A limiter that works on the map as it was when the request was received.
mapRead_AtArrival(map, seen) == seen

\* rateLimitMap.has / .get / .set inside rateLimit act on the map as it is
\* when middleware runs, whatever it was when the request was received.
mapRead(map, seen) == map

(***************************************************************************)
(* shareDriveFile, call by call (googdrive.ts:280-296). The record holds   *)
(* the argument, the loop's position and local array, what the backend was *)
(* asked and what it holds, and the value returned.                        *)
(***************************************************************************)
\* The permission objects a caller may list.
Permissions == {"reader:a", "writer:b"}

RECURSIVE SeqsUpTo(_, _)
\* The sequences over S of length at most n.
SeqsUpTo(S, n) ==
    IF n = 0 THEN {<<>>}
    ELSE LET shorter == SeqsUpTo(S, n - 1)
         IN  shorter \cup {Append(q, x) : q \in {r \in shorter : Len(r) = n - 1}, x \in S}

PermissionLists == SeqsUpTo(Permissions, MaxPerms)

\* How one drive.permissions.create call settles: it resolves, or rejects
\* with a message; a rejected call may or may not have left its permission
\* on the file.
CreateOutcomes ==
    {[fails |-> FALSE, message |-> "", lands |-> TRUE]}
        \cup [fails : {TRUE}, message : ThrownMessages, lands : BOOLEAN]

NoShare ==
    [pc |-> "idle", permissions |-> <<>>, next |-> 1, results |-> <<>>,
     attempts |-> <<>>, applied |-> <<>>, open |-> 0, failedAt |-> 0,
     message |-> undefined, returned |-> JsUndefined]

\* const results = []; the loop is about to take its first element.
shareStart(perms) == [NoShare EXCEPT !.pc = "loop", !.permissions = perms]

\* drive.permissions.create({ fileId, requestBody: perm }) is called and
\* awaited.
shareCreate(s) ==
    [s EXCEPT !.pc = "awaiting",
              !.attempts = Append(s.attempts, s.permissions[s.next]),
              !.open = s.open + 1]

\* A loop that goes on to the next permission after a rejected call.
shareSettle_SkipsFailure(s, o) ==
    [s EXCEPT !.pc = "loop",
              !.open = s.open - 1,
              !.next = s.next + 1,
              !.failedAt = IF o.fails /\ s.failedAt = 0 THEN s.next ELSE s.failedAt,
              !.message = IF o.fails THEN o.message ELSE s.message,
              !.applied = IF o.lands THEN Append(s.applied, s.permissions[s.next])
                          ELSE s.applied,
              !.results = IF o.fails THEN s.results
                          ELSE Append(s.results, s.permissions[s.next])]

\* The awaited call settles with o: results.push(res.data) and on to the
\* next element, or the catch block returns { error }.
shareSettle(s, o) ==
    IF o.fails
    THEN [s EXCEPT !.pc = "returned",
                   !.open = s.open - 1,
                   !.failedAt = s.next,
                   !.message = o.message,
                   !.applied = IF o.lands THEN Append(s.applied, s.permissions[s.next])
                               ELSE s.applied,
                   !.returned = ErrorObject(o)]
    ELSE [s EXCEPT !.pc = "loop",
                   !.open = s.open - 1,
                   !.next = s.next + 1,
                   !.applied = Append(s.applied, s.permissions[s.next]),
                   !.results = Append(s.results, s.permissions[s.next])]

\* return results;
shareReturn(s) == [s EXCEPT !.pc = "returned", !.returned = JsArray(s.results)]

(***************************************************************************)
(* updateGoogleDocContent (googdrive.ts, the part with lines 397-431).     *)
(***************************************************************************)
\* The endIndex of the document's last structural element.
EndIndexes == 0 .. MaxEndIndex

NewContents == {"", "new text"}

\* What the Docs backend does for one call: whether documents.get fails,
\* whether the body, its content or the last element's endIndex is missing
\* (the optional chain then yields undefined), the last endIndex it reports
\* otherwise, whether documents.batchUpdate fails, and the message of the
\* error thrown.
DocBackend ==
    {d \in [fails : BOOLEAN, absent : BOOLEAN, endIndex : EndIndexes,
            batchFails : BOOLEAN, message : ThrownMessages] :
        d.absent => d.endIndex = 0}

deleteContentRange(startIndex, endIndex) ==
    [t |-> "deleteContentRange", startIndex |-> startIndex,
     endIndex |-> endIndex, index |-> 0, text |-> ""]

insertText(index, text) ==
    [t |-> "insertText", startIndex |-> 0, endIndex |-> 0,
     index |-> index, text |-> text]

\* An update that deletes up to the document's end, final newline included.
updateGoogleDocContent_DeletesToEnd(d, newContent) ==
    IF d.fails
    THEN [batches |-> <<>>, value |-> ErrorObject(d)]
    ELSE LET endIndex == IF d.absent \/ d.endIndex = 0 THEN 1 ELSE d.endIndex
             deleteEndIndex == endIndex
             requests ==
                 (IF deleteEndIndex > 1
                  THEN <<deleteContentRange(1, deleteEndIndex)>> ELSE <<>>)
                     \o <<insertText(1, newContent)>>
         IN  [batches |-> <<requests>>,
              value |-> IF d.batchFails THEN ErrorObject(d)
                        ELSE [JsObject EXCEPT !.success = "true"]]

\* The batches sent to documents.batchUpdate, in order, and the value
\* returned.
updateGoogleDocContent(d, newContent) ==
    IF d.fails
    THEN [batches |-> <<>>, value |-> ErrorObject(d)]
    ELSE LET endIndex == IF d.absent \/ d.endIndex = 0 THEN 1 ELSE d.endIndex
             deleteEndIndex == IF endIndex > 1 THEN endIndex - 1 ELSE 1
             requests ==
                 (IF deleteEndIndex > 1
                  THEN <<deleteContentRange(1, deleteEndIndex)>> ELSE <<>>)
                     \o <<insertText(1, newContent)>>
         IN  [batches |-> <<requests>>,
              value |-> IF d.batchFails THEN ErrorObject(d)
                        ELSE [JsObject EXCEPT !.success = "true"]]

NoDocBackend ==
    [fails |-> FALSE, absent |-> TRUE, endIndex |-> 0, batchFails |-> FALSE,
     message |-> ""]

NoUpdate ==
    [pc |-> "idle", backend |-> NoDocBackend, newContent |-> "",
     batches |-> <<>>, returned |-> JsUndefined]

(***************************************************************************)
(* The state after construction: an empty map (route.ts:34).               *)
(***************************************************************************)
InitWith(env) ==
    /\ now = 0
    /\ rateLimitMap = [k \in {} |-> [count |-> 0, start |-> 0]]
    /\ winStart = [k \in Keys |-> 0]
    /\ winCalls = [k \in Keys |-> 0]
    /\ log = [k \in Keys |-> NoLog]
    /\ last = NoCall
    /\ ALLOWED_API_KEY = env
    /\ req = NoRequest
    /\ response = NotRun
    /\ invoked = "none"
    /\ calls = [i \in CallIds |-> NoToolCall]
    /\ inflight = [i \in CallIds |-> NotReceived]
    /\ share = NoShare
    /\ doc = NoUpdate

\* A deployment with the API key configured.
Init == InitWith("secret")

\* Any deployment, the API key configured or not.
InitAnyEnv == \E env \in EnvKeys : InitWith(env)

\* Time passes between two calls.
Tick(d) ==
    /\ now + d <= MaxNow
    /\ now' = now + d
    /\ log' = [k \in Keys |-> LogPrune(log[k], now + d)]
    /\ last' = NoCall
    /\ UNCHANGED <<rateLimitMap, winStart, winCalls, guardVars, toolVars>>

\* One call rateLimit(ip) at the current clock value.
RateLimit(ip) ==
    LET r == rateLimit(rateLimitMap, ip, now)
        opens == OpensWindow(ip, now)
        n == IF opens THEN 1 ELSE winCalls[ip] + 1
    IN  /\ n <= (IF ip = Busy THEN MaxCalls ELSE MaxOther)
        /\ rateLimitMap' = r.map
        /\ winStart' = [winStart EXCEPT ![ip] = IF opens THEN now ELSE @]
        /\ winCalls' = [winCalls EXCEPT ![ip] = n]
        /\ log' = [log EXCEPT ![ip] = LogAdd(@, now, ~r.limited)]
        /\ last' = CallOf(rateLimitMap, ip, r.limited)
        /\ UNCHANGED <<now, guardVars, toolVars>>

Next ==
    \/ \E d \in TickSteps : Tick(d)
    \/ \E ip \in Keys : RateLimit(ip)

Spec == Init /\ [][Next]_vars

(***************************************************************************)
(* The guard and the exported handler.                                     *)
(***************************************************************************)
\* The keys whose count has gone past what the quiet clients are allowed.
BusyKeys(map) == {j \in DOMAIN map : map[j].count > MaxOther}

\* middleware(req) runs on request r. It has no await: it runs to its return
\* in one step of the event loop.
Middleware(r) ==
    LET m == middleware(r, ALLOWED_API_KEY, rateLimitMap, now)
    IN  /\ Cardinality(BusyKeys(m.map)) <= 1
        /\ rateLimitMap' = m.map
        /\ last' = m.call
        /\ req' = r
        /\ response' = m.response
        /\ invoked' = "none"
        /\ UNCHANGED <<now, limiterObservers, ALLOWED_API_KEY, toolVars>>

\* The guard under a burst of requests: all of them within one clock value,
\* so within one window of the limiter.
NextGuard == \E r \in Requests : Middleware(r)

SpecGuard == InitAnyEnv /\ [][NextGuard]_vars

\* The exported POST handler (route.ts:522) is the handler createMcpHandler
\* returns (route.ts:97): a tools/call for a registered name runs that tool's
\* handler. Nothing on this path calls middleware or rateLimit.
POST(r, name) ==
    /\ req' = r
    /\ response' = NotRun
    /\ invoked' = IF name \in ToolNames THEN name ELSE "none"
    /\ last' = NoCall
    /\ UNCHANGED <<now, rateLimitMap, limiterObservers, ALLOWED_API_KEY, toolVars>>

NextPost == \E r \in Requests, name \in CalledNames : POST(r, name)

SpecPost == InitAnyEnv /\ [][NextPost]_vars

\* A tools/call for a registered name enters the tool's handler, which calls
\* its adapter and awaits it; b is what the backend will do.
StartCall(i, name, b) ==
    /\ calls[i].pc = "idle"
    /\ calls' = [calls EXCEPT ![i] = [pc |-> "awaiting", tool |-> name,
                                      backend |-> b, result |-> NoResult]]
    /\ UNCHANGED <<now, rateLimitMap, limiterObservers, last, guardVars, inflight, driveVars>>

\* The adapter's promise settles and the handler runs to its end.
Resume(i) ==
    /\ calls[i].pc = "awaiting"
    /\ calls' = resume(calls, i)
    /\ UNCHANGED <<now, rateLimitMap, limiterObservers, last, guardVars, inflight, driveVars>>

\* The response of a finished call has been written; its slot is free again.
Finish(i) ==
    /\ calls[i].pc = "done"
    /\ calls' = [calls EXCEPT ![i] = NoToolCall]
    /\ UNCHANGED <<now, rateLimitMap, limiterObservers, last, guardVars, inflight, driveVars>>

\* One call at a time, of any registered tool, against any backend behaviour.
NextTools ==
    \/ \E name \in ToolNames, b \in Backend : StartCall(1, name, b)
    \/ Resume(1)
    \/ Finish(1)

SpecTools == Init /\ [][NextTools]_vars

\* The tools and backend behaviours of the calls that run side by side: a
\* handler without an error branch, one that can throw, one with try/catch
\* and a paginated one; a backend that fails or not, with or without its
\* list.
IsoTools ==
    {"Notion Fetch", "Google Drive List Revisions", "GitHub List Repos",
     "Notion List Database Entries"}

IsoBackends ==
    {b \in Backend : /\ b.message = "Not Found"
                     /\ ~b.blocksFail
                     /\ b.items = <<"e1">>
                     /\ b.has_more
                     /\ b.next_cursor = "cur-2"}

\* Several calls in flight, their steps interleaved in any order. A call may
\* stay suspended for ever: nothing forces Resume.
NextIso ==
    \E i \in CallIds :
        \/ \E name \in IsoTools, b \in IsoBackends : StartCall(i, name, b)
        \/ Resume(i)
        \/ Finish(i)

SpecIso == Init /\ [][NextIso]_vars

\* The number of received requests of key ip whose middleware has not run.
Waiting(ip) ==
    Cardinality({i \in CallIds : /\ inflight[i].pc = "received"
                                 /\ ClientKey(inflight[i].req) = ip})

\* Request r is received; its middleware has not started.
Receive(i, r) ==
    /\ inflight[i].pc = "idle"
    /\ winCalls[ClientKey(r)] + Waiting(ClientKey(r)) < MaxCalls
    /\ inflight' = [inflight EXCEPT ![i] =
                       [pc |-> "received", req |-> r, seen |-> rateLimitMap]]
    /\ UNCHANGED <<now, rateLimitMap, limiterObservers, last, guardVars, calls, driveVars>>

\* The event loop runs middleware on received request i, from its first line
\* to its return. The observers count the requests that passed the transport
\* and the credential check, by the key of their forwarded address.
RunMiddleware(i) ==
    LET r == inflight[i].req
        ip == ClientKey(r)
        m == middleware(r, ALLOWED_API_KEY,
                        mapRead(rateLimitMap, inflight[i].seen), now)
        counted == ~TransportFails(r) /\ ~CredentialFails(r, ALLOWED_API_KEY)
    IN  /\ inflight[i].pc = "received"
        /\ rateLimitMap' = m.map
        /\ winCalls' = IF counted THEN [winCalls EXCEPT ![ip] = @ + 1]
                                  ELSE winCalls
        /\ log' = IF counted
                  THEN [log EXCEPT ![ip] = LogAdd(@, now, ~m.call.limited)]
                  ELSE log
        /\ last' = m.call
        /\ req' = r
        /\ response' = m.response
        /\ invoked' = "none"
        /\ inflight' = [inflight EXCEPT ![i] = NotReceived]
        /\ UNCHANGED <<now, winStart, ALLOWED_API_KEY, calls, driveVars>>

\* Requests of the busy client received and handled in any order, all within
\* one window of the limiter.
NextRace ==
    \E i \in CallIds :
        \/ \E r \in RaceRequests : Receive(i, r)
        \/ RunMiddleware(i)

SpecRace == Init /\ [][NextRace]_vars

\* The requests over https of callers with and without a forwarded address,
\* with and without a valid key, from an allowed and from a foreign origin.
QuotaRequests ==
    [proto : {"https"}, apiKey : {null, "", "secret", "wrong", "undefined"},
     ip : {null, "", "1.2.3.4"},
     origin : {"https://your-trusted-origin.com", "https://evil.example"}]

\* At most one key is explored past MaxOther counted requests.
MayCount(k) ==
    \/ winCalls[k] < MaxOther
    \/ \A j \in Keys \ {k} : winCalls[j] <= MaxOther

\* One request after the other, of any of these callers, all within one
\* window of the limiter, in a deployment with or without ALLOWED_API_KEY.
NextQuota ==
    \/ \E r \in QuotaRequests : MayCount(ClientKey(r)) /\ Receive(1, r)
    \/ RunMiddleware(1)

SpecQuota == InitAnyEnv /\ [][NextQuota]_vars

\* The limiter's calls of both keys, at most one expiry of the windows, and
\* beside them tool calls running through their handlers.
NextBuckets ==
    \/ Tick(RATE_LIMIT_WINDOW + 1)
    \/ \E ip \in Keys : RateLimit(ip)
    \/ \E name \in IsoTools, b \in IsoBackends : StartCall(1, name, b)
    \/ Resume(1)
    \/ Finish(1)

SpecBuckets == Init /\ [][NextBuckets]_vars

(***************************************************************************)
(* One shareDriveFile call at a time, on any permissions list, each        *)
(* backend call settling either way.                                       *)
(***************************************************************************)
ShareStart(perms) ==
    /\ share.pc = "idle"
    /\ share' = shareStart(perms)
    /\ UNCHANGED <<now, rateLimitMap, limiterObservers, last, guardVars,
                   calls, inflight, doc>>

ShareCreate ==
    /\ share.pc = "loop"
    /\ share.next <= Len(share.permissions)
    /\ share' = shareCreate(share)
    /\ UNCHANGED <<now, rateLimitMap, limiterObservers, last, guardVars,
                   calls, inflight, doc>>

ShareSettle(o) ==
    /\ share.pc = "awaiting"
    /\ share' = shareSettle(share, o)
    /\ UNCHANGED <<now, rateLimitMap, limiterObservers, last, guardVars,
                   calls, inflight, doc>>

ShareReturn ==
    /\ share.pc = "loop"
    /\ share.next > Len(share.permissions)
    /\ share' = shareReturn(share)
    /\ UNCHANGED <<now, rateLimitMap, limiterObservers, last, guardVars,
                   calls, inflight, doc>>

\* The handler has answered; the next call starts on another file.
ShareFinish ==
    /\ share.pc = "returned"
    /\ share' = NoShare
    /\ UNCHANGED <<now, rateLimitMap, limiterObservers, last, guardVars,
                   calls, inflight, doc>>

NextShare ==
    \/ \E perms \in PermissionLists : ShareStart(perms)
    \/ ShareCreate
    \/ \E o \in CreateOutcomes : ShareSettle(o)
    \/ ShareReturn
    \/ ShareFinish

SpecShare == Init /\ [][NextShare]_vars

(***************************************************************************)
(* One updateGoogleDocContent call at a time, on any document and backend  *)
(* behaviour.                                                              *)
(***************************************************************************)
UpdateStart(d, newContent) ==
    /\ doc.pc = "idle"
    /\ doc' = [NoUpdate EXCEPT !.pc = "awaiting", !.backend = d,
                               !.newContent = newContent]
    /\ UNCHANGED <<now, rateLimitMap, limiterObservers, last, guardVars,
                   calls, inflight, share>>

UpdateResume ==
    /\ doc.pc = "awaiting"
    /\ LET out == updateGoogleDocContent(doc.backend, doc.newContent)
       IN  doc' = [doc EXCEPT !.pc = "done", !.batches = out.batches,
                              !.returned = out.value]
    /\ UNCHANGED <<now, rateLimitMap, limiterObservers, last, guardVars,
                   calls, inflight, share>>

UpdateFinish ==
    /\ doc.pc = "done"
    /\ doc' = NoUpdate
    /\ UNCHANGED <<now, rateLimitMap, limiterObservers, last, guardVars,
                   calls, inflight, share>>

NextDocs ==
    \/ \E d \in DocBackend, newContent \in NewContents : UpdateStart(d, newContent)
    \/ UpdateResume
    \/ UpdateFinish

SpecDocs == Init /\ [][NextDocs]_vars


(***************************************************************************)
(* The rate limiter's claims, under Spec.                                  *)
(***************************************************************************)
\* C1: in every fixed window of every key (the calls from the one that opened
\* the window up to time windowStart + 60 s), exactly the first 100 calls are
\* allowed: a call is limited if and only if it is the 101st or later call
\* of its window, and the entry's start is the time of the call that opened
\* the window.
C1_FirstHundredAllowed ==
    last.ip # "none" =>
        /\ last.limited <=> winCalls[last.ip] > RATE_LIMIT
        /\ rateLimitMap[last.ip].start = winStart[last.ip]

\* The 101st call of a window has just been limited, on the window boundary.
C1_Witness ==
    /\ last.ip = Busy
    /\ last.limited
    /\ winCalls[Busy] = RATE_LIMIT + 1
    /\ now - winStart[Busy] = RATE_LIMIT_WINDOW

\* C2: a client whose calls never number more than 100 inside any interval
\* of length 60 s is never limited: whenever a call is limited, more than 100
\* of that client's calls (this one included) lie in the 60 s ending at it,
\* whatever the other clients did.
C2_LimitedOnlyAboveHundredPerMinute ==
    (last.ip # "none" /\ last.limited)
        => CallsIn(log[last.ip], now - RATE_LIMIT_WINDOW, now) > RATE_LIMIT

\* Exactly 100 calls in the last 60 s, spread over two fixed windows, the
\* latest one allowed, with another client active as well.
C2_Witness ==
    /\ last.ip = Busy
    /\ ~last.limited
    /\ CallsIn(log[Busy], now - RATE_LIMIT_WINDOW, now) = RATE_LIMIT
    /\ Cardinality(DOMAIN log[Busy]) = 2
    /\ winStart[Busy] = now
    /\ DOMAIN rateLimitMap = Keys

\* C3: for every IP and every interval of length 60 s, at most 100 requests
\* of that IP pass the rate-limit check.
C3_AtMostHundredPassPerMinute ==
    \A k \in Keys : \A t \in DOMAIN log[k] :
        PassesIn(log[k], t - RATE_LIMIT_WINDOW, t) <= RATE_LIMIT

\* C4: a call made more than 60 s after the entry's start is allowed, even
\* when the count had reached 100, and leaves the entry {count: 1, start: now}.
C4_ExpiredWindowIsReplaced ==
    (last.ip # "none" /\ last.had /\ now - last.prevStart > RATE_LIMIT_WINDOW)
        => /\ ~last.limited
           /\ rateLimitMap[last.ip] = [count |-> 1, start |-> now]

\* A call just past the window of an entry whose count had reached 100.
C4_Witness ==
    /\ last.ip = Busy
    /\ last.had
    /\ last.prevCount = RATE_LIMIT
    /\ now - last.prevStart = RATE_LIMIT_WINDOW + 1
    /\ rateLimitMap[Busy] = [count |-> 1, start |-> now]

\* C5: every entry of rateLimitMap has 1 <= count <= 100, whatever the
\* clock values and the mix of keys.
C5_CountWithinLimit ==
    \A k \in DOMAIN rateLimitMap :
        1 <= rateLimitMap[k].count /\ rateLimitMap[k].count <= RATE_LIMIT

\* A call beyond the limit has been made and the count stayed at 100.
C5_Witness ==
    /\ last.ip = Busy
    /\ last.limited
    /\ winCalls[Busy] = RATE_LIMIT + 2
    /\ rateLimitMap[Busy].count = RATE_LIMIT
    /\ DOMAIN rateLimitMap = Keys

(***************************************************************************)
(* The guard's claims, under SpecGuard.                                    *)
(***************************************************************************)
\* C6: middleware evaluates transport, credential, rate limit, origin in that
\* order and returns the rejection of the first check that fails: 403 if
\* x-forwarded-proto is not 'https'; else 401 if the key is missing or not in
\* the allow-list; else 429 if the rate limiter denies; else 403 if an origin
\* is present and not allowed; else pass. The limiter is consulted exactly
\* when the first two checks passed.
C6_FirstFailingCheckDecides ==
    response # NotRun =>
        /\ response \in {HttpsRequired, Unauthorized, TooManyRequests, CorsNotAllowed, Pass}
        /\ response =
             IF req.proto # "https" THEN HttpsRequired
             ELSE IF req.apiKey \in {null, ""} \/ req.apiKey # ALLOWED_API_KEY
             THEN Unauthorized
             ELSE IF last.limited THEN TooManyRequests
             ELSE IF req.origin \notin {null, ""} /\ req.origin \notin ALLOWED_ORIGINS
             THEN CorsNotAllowed
             ELSE Pass
        /\ (last # NoCall) <=>
             (req.proto = "https" /\ req.apiKey \notin {null, ""}
                /\ req.apiKey = ALLOWED_API_KEY)
        /\ last # NoCall => last.ip = (IF req.ip \in {null, ""} THEN "unknown" ELSE req.ip)

\* An authorized request with a disallowed origin, denied by the limiter:
\* the rate rejection comes before the origin rejection.
C6_Witness ==
    /\ response = TooManyRequests
    /\ req.origin = "https://evil.example"
    /\ last.limited
    /\ last.prevCount = RATE_LIMIT

\* C7: a request whose x-forwarded-proto is not 'https' is rejected with 403
\* before the credential and rate checks run, whatever its API key, origin
\* and address, and the step leaves rateLimitMap unchanged.
C7_InsecureRejectedFirst ==
    [][(response' # NotRun /\ req'.proto # "https")
         => /\ response' = HttpsRequired
            /\ last' = NoCall
            /\ rateLimitMap' = rateLimitMap]_vars

\* A plain-http request carrying the valid key and an allowed origin was
\* rejected 403, with entries already in the map.
C7_Witness ==
    /\ response = HttpsRequired
    /\ req.proto = "http"
    /\ req.apiKey = ALLOWED_API_KEY
    /\ req.origin \in ALLOWED_ORIGINS
    /\ DOMAIN rateLimitMap = Keys

\* C8, as claimed: a request missing the credential header, or presenting a
\* key not in the allow-list, always receives 401, regardless of the other
\* header values (forwarded protocol, forwarded address, origin).
C8_BadCredentialAlways401 ==
    (response # NotRun /\ (req.apiKey = null \/ req.apiKey # ALLOWED_API_KEY))
        => response = Unauthorized

\* C8, amended: such a request receives 401 whenever its x-forwarded-proto is
\* 'https', regardless of forwarded address and origin and of the limiter's
\* state, and the limiter is not consulted; otherwise it receives the 403
\* "HTTPS required".
C8_BadCredentialOverHttps401 ==
    (response # NotRun /\ (req.apiKey = null \/ req.apiKey # ALLOWED_API_KEY))
        => /\ response = (IF req.proto = "https" THEN Unauthorized ELSE HttpsRequired)
           /\ last = NoCall

\* A request over https with a wrong key and a disallowed origin, from an
\* address whose limit is exhausted, was answered 401.
C8_Witness ==
    /\ response = Unauthorized
    /\ req.proto = "https"
    /\ req.apiKey = "wrong"
    /\ req.origin = "https://evil.example"
    /\ req.ip = "1.2.3.4"
    /\ "1.2.3.4" \in DOMAIN rateLimitMap
    /\ rateLimitMap["1.2.3.4"].count = RATE_LIMIT

(***************************************************************************)
(* The exported handler's claim, under SpecPost.                           *)
(***************************************************************************)
\* C9: no tool handler is invoked for a request unless middleware has run on
\* that request and returned pass.
C9_ToolOnlyAfterGuardPassed ==
    invoked # "none" => response = Pass

(***************************************************************************)
(* The tool handlers' claims, under SpecTools.                             *)
(***************************************************************************)
\* The calls whose handler has ended.
DoneCalls == {i \in CallIds : calls[i].pc = "done"}

\* What call i's adapter settled with.
OutcomeOf(i) == Adapter(calls[i].tool, calls[i].backend)

\* The adapter reports a failure: it throws, or it returns a value carrying
\* an error (an error property, or the error page fetchNotionContent makes).
AdapterReports(out) ==
    \/ out.thrown
    \/ out.value.error # undefined
    \/ out.value.title = "Error fetching Notion page"

\* The message of the failure the adapter reports.
ReportedMessage(out) ==
    IF out.thrown THEN out.message
    ELSE IF out.value.error # undefined THEN out.value.error
    ELSE out.value.body

\* C12: for every registered tool, when its adapter reports a failure, the
\* handler returns a ToolResult with exactly one content block, whose text
\* is "Error: " followed by the adapter's message, and with no nextCursor.
C12_FailureIsOneErrorBlock ==
    \A i \in DoneCalls :
        AdapterReports(OutcomeOf(i)) =>
            /\ ~calls[i].result.thrown
            /\ calls[i].result.content
                   = <<"Error: " \o ReportedMessage(OutcomeOf(i))>>
            /\ calls[i].result.nextCursor = undefined

\* C13: no registered tool handler lets a fault propagate: for every value
\* its adapter can return and every exception its adapter can throw, the
\* handler ends by returning a ToolResult, never by throwing.
C13_HandlerNeverThrows ==
    \A i \in DoneCalls : ~calls[i].result.thrown

PaginatedTools == {"Notion List Database Entries", "Notion Query Database"}

\* C15: the ToolResult of a paginated tool carries the backend's next cursor
\* unchanged when the call succeeded and the backend reports more pages
\* (has_more with a next cursor that is neither null nor empty), and carries
\* no nextCursor otherwise: has_more false, no next cursor, or a failed call.
C15_NextCursorPassedThrough ==
    \A i \in DoneCalls :
        calls[i].tool \in PaginatedTools =>
            LET b == calls[i].backend
            IN  calls[i].result.nextCursor
                    = IF ~b.fails /\ b.has_more /\ b.next_cursor \notin {null, ""}
                      THEN b.next_cursor
                      ELSE undefined

\* A query returned two entries and the cursor of the next page.
C15_Witness ==
    /\ calls[1].pc = "done"
    /\ calls[1].tool = "Notion Query Database"
    /\ ~calls[1].backend.fails
    /\ calls[1].backend.next_cursor = "cur-2"
    /\ Len(calls[1].result.content) = 2
    /\ calls[1].result.nextCursor = "cur-2"

\* The adapter of call i returned normally and reports no failure.
Successful(i) == ~AdapterReports(OutcomeOf(i)) /\ ~calls[i].backend.fails

\* C16: every ToolResult returned for a successful tool call has a non-empty
\* content sequence, also when the adapter returned an empty list.
C16_SuccessHasContent ==
    \A i \in DoneCalls :
        (Successful(i) /\ ~calls[i].result.thrown)
            => calls[i].result.content # <<>>

\* A backend request made for a call of the tool fails: the adapter's first
\* request, or the request for the page's blocks that fetchNotionContent and
\* fetchNotionPageContent make after it.
BackendCallFails(name, b) ==
    \/ b.fails
    \/ /\ b.blocksFail
       /\ name \in {"Notion Fetch", "Notion Fetch Page Content"}

\* C17: no error is silently dropped. Whenever a backend request made for a
\* tool call fails, the call ends with a ToolResult (it does not throw), and
\* that ToolResult is not one the same tool returns when every backend
\* request succeeds.
C17_FailureIsDistinguishable ==
    \A i \in DoneCalls :
        BackendCallFails(calls[i].tool, calls[i].backend) =>
            /\ ~calls[i].result.thrown
            /\ \A b \in Backend :
                   ~BackendCallFails(calls[i].tool, b)
                       => ToolHandler(calls[i].tool, b) # calls[i].result

(***************************************************************************)
(* The limiter under concurrently handled requests, under SpecRace.        *)
(***************************************************************************)
\* C18: the limiter's read-check-increment is one atomic step. In every
\* interleaving of the requests of one client, no increment is lost (the
\* entry's count is the number of rateLimit calls of the window, up to the
\* limit) and the requests allowed in the window are exactly that count, so
\* never more than 100.
C18_IncrementAtomic ==
    \A k \in Keys :
        winCalls[k] > 0 =>
            /\ k \in DOMAIN rateLimitMap
            /\ rateLimitMap[k].count
                   = (IF winCalls[k] < RATE_LIMIT THEN winCalls[k] ELSE RATE_LIMIT)
            /\ PassesIn(log[k], winStart[k], now) = rateLimitMap[k].count
            /\ PassesIn(log[k], winStart[k], now) <= RATE_LIMIT

\* A request received when the client had no entry yet is still waiting
\* after a hundred later requests were admitted, and the next one to run has
\* just been limited.
C18_Witness ==
    /\ inflight[1].pc = "received"
    /\ Busy \notin DOMAIN inflight[1].seen
    /\ last.ip = Busy
    /\ last.limited
    /\ winCalls[Busy] = RATE_LIMIT + 1

(***************************************************************************)
(* The registry, under SpecPost.                                           *)
(***************************************************************************)
\* C19: the registry contains each tool name at most once, names compared
\* as the strings they are, and the set of registered names is exactly the
\* set of names the README lists; so every tool a call reaches is a listed
\* one.
C19_RegistryMatchesReadme ==
    /\ \A i, j \in DOMAIN Registry : Registry[i] = Registry[j] => i = j
    /\ ToolNames = ReadmeTools
    /\ Cardinality(ReadmeTools) = Len(Registry)
    /\ invoked # "none" => invoked \in ReadmeTools

\* A call has reached the last tool registered, which the README lists.
C19_Witness ==
    /\ invoked = "Web Search"
    /\ invoked \in ReadmeTools
    /\ \E i \in DOMAIN Registry : Registry[i] = invoked

(***************************************************************************)
(* The guard's origin check, under SpecGuard.                              *)
(***************************************************************************)
\* middleware has run on req, and req passed the transport, the credential
\* and the rate check.
ReachedOriginCheck ==
    /\ response # NotRun
    /\ ~TransportFails(req)
    /\ ~CredentialFails(req, ALLOWED_API_KEY)
    /\ last.ip = ClientKey(req)
    /\ ~last.limited

\* C20: a request that passes the transport, credential and rate checks is
\* passed by the guard if and only if it carries no origin header or its
\* origin is in ALLOWED_ORIGINS, and a request without an origin header is
\* never rejected with the CORS 403.
C20_PassIffAbsentOrAllowed ==
    /\ ReachedOriginCheck =>
           (response = Pass
                <=> (req.origin = null \/ req.origin \in ALLOWED_ORIGINS))
    /\ (response # NotRun /\ req.origin = null) => response # CorsNotAllowed

\* C20, amended: such a request is passed if and only if its origin header
\* is absent or empty or its value is in ALLOWED_ORIGINS, and is rejected
\* with the CORS 403 otherwise; a request without an origin header is never
\* rejected with the CORS 403.
C20_PassIffFalsyOrAllowed ==
    /\ ReachedOriginCheck =>
           /\ response = Pass
                  <=> (req.origin \in {null, ""} \/ req.origin \in ALLOWED_ORIGINS)
           /\ response # Pass => response = CorsNotAllowed
    /\ (response # NotRun /\ req.origin = null) => response # CorsNotAllowed

\* A request with an empty origin header, not the first of its client in the
\* window, has passed the three earlier checks and has been passed.
C20_Witness ==
    /\ ReachedOriginCheck
    /\ req.origin = ""
    /\ response = Pass
    /\ last.prevCount = 2

(***************************************************************************)
(* The limiter's buckets as the guard uses them, under SpecQuota.          *)
(***************************************************************************)
\* middleware has run on req and req passed the transport and the credential
\* check.
ReachedRateCheck ==
    /\ response # NotRun
    /\ ~TransportFails(req)
    /\ ~CredentialFails(req, ALLOWED_API_KEY)

\* C21: every authorized request without an x-forwarded-for value (absent or
\* empty) is counted under the one key 'unknown', whoever sent it: it is
\* rejected with 429 exactly when more than 100 such requests have been
\* counted in the window. A request with an address is counted under its
\* address alone, so it is limited by the requests of its address only.
C21_UnknownBucketShared ==
    ReachedRateCheck =>
        /\ last.ip = (IF req.ip \in {null, ""} THEN "unknown" ELSE req.ip)
        /\ last.limited <=> winCalls[last.ip] > RATE_LIMIT
        /\ response = TooManyRequests <=> last.limited

\* The 101st authorized request without an address has been rejected; it
\* came without the header, while the address 1.2.3.4 has its own entry with
\* its own count.
C21_Witness ==
    /\ ReachedRateCheck
    /\ req.ip = null
    /\ response = TooManyRequests
    /\ winCalls["unknown"] = RATE_LIMIT + 1
    /\ "1.2.3.4" \in DOMAIN rateLimitMap
    /\ rateLimitMap["1.2.3.4"].count = 1

(***************************************************************************)
(* More of the rate limiter's claims, under Spec.                          *)
(***************************************************************************)
\* C22: a rateLimit call that returns limited leaves rateLimitMap entirely
\* unchanged: neither the count nor the start of any entry is modified.
C22_LimitedLeavesMapUnchanged ==
    [][(last'.ip # "none" /\ last'.limited) => rateLimitMap' = rateLimitMap]_vars

\* The second limited call in a row, made on the window's boundary, has left
\* the entry at count 100 with the start the window was opened at.
C22_Witness ==
    /\ last.ip = Busy
    /\ last.limited
    /\ last.prevCount = RATE_LIMIT
    /\ winCalls[Busy] = RATE_LIMIT + 2
    /\ now - winStart[Busy] = RATE_LIMIT_WINDOW
    /\ rateLimitMap[Busy] = [count |-> RATE_LIMIT, start |-> winStart[Busy]]

\* C23: the reset test is strict. A call that finds an entry is handled
\* inside the entry's window whenever now - start <= 60 000 ms, the boundary
\* included (limited if the count is 100, otherwise the count is incremented
\* and the start kept); the entry is reset to {count: 1, start: now}, and
\* the call allowed, only when now - start > 60 000 ms.
C23_BoundaryInsideWindow ==
    (last.ip # "none" /\ last.had) =>
        IF now - last.prevStart > RATE_LIMIT_WINDOW
        THEN /\ ~last.limited
             /\ rateLimitMap[last.ip] = [count |-> 1, start |-> now]
        ELSE /\ last.limited <=> last.prevCount >= RATE_LIMIT
             /\ rateLimitMap[last.ip].start = last.prevStart
             /\ rateLimitMap[last.ip].count
                    = (IF last.limited THEN last.prevCount ELSE last.prevCount + 1)

\* A call made exactly 60 000 ms after the window's start found the count at
\* 99 and was allowed as the window's hundredth.
C23_Witness ==
    /\ last.ip = Busy
    /\ last.had
    /\ now - last.prevStart = RATE_LIMIT_WINDOW
    /\ last.prevCount = RATE_LIMIT - 1
    /\ ~last.limited
    /\ rateLimitMap[Busy] = [count |-> RATE_LIMIT, start |-> last.prevStart]

\* The calls of key k that rateLimit allowed in the 60 s up to the time t of
\* one of its calls, both ends included.
Burst(k, t) == PassesIn(log[k], t - RATE_LIMIT_WINDOW, t)

\* C24: across a window boundary a client can burst up to 2 x LIMIT and
\* reaches it: no interval of 60 s holds more than 200 allowed calls of one
\* client, and a burst that has reached 199 allowed calls goes on to the
\* 200th, the next call at that time being allowed.
C24_BurstReachesTwiceLimit ==
    \A k \in Keys :
        /\ \A t \in DOMAIN log[k] : Burst(k, t) <= 2 * RATE_LIMIT
        /\ (now \in DOMAIN log[k] /\ Burst(k, now) = 2 * RATE_LIMIT - 1)
               => ~rateLimit(rateLimitMap, k, now).limited

\* C24, amended: for every client and every interval of 60 s, at most 199
\* calls of that client are allowed: the call that opens the second window
\* comes more than 60 s after the call that opened the first, so the
\* interval never holds all hundred allowed calls of both windows.
C24_BurstAtMost199 ==
    \A k \in Keys : \A t \in DOMAIN log[k] : Burst(k, t) <= 2 * RATE_LIMIT - 1

\* 199 calls were allowed within 60 s: 99 of the first window and the 100 of
\* the second; the second window is exhausted.
C24_Witness ==
    /\ Burst(Busy, now) = 2 * RATE_LIMIT - 1
    /\ rateLimitMap[Busy] = [count |-> RATE_LIMIT, start |-> now]
    /\ winStart[Busy] = now

(***************************************************************************)
(* The limiter's buckets beside the tool handlers, under SpecBuckets.      *)
(***************************************************************************)
\* C25: a rateLimit call for a key creates or modifies only that key's
\* entry and leaves every other entry as it was, no step removes an entry,
\* and a step of a tool handler leaves rateLimitMap unchanged and gives the
\* ToolResult its tool gives for its backend's behaviour, whatever the map
\* holds.
C25_BucketsIndependent ==
    [][/\ DOMAIN rateLimitMap \subseteq DOMAIN rateLimitMap'
       /\ \A k \in DOMAIN rateLimitMap' :
              k # last'.ip =>
                  (k \in DOMAIN rateLimitMap /\ rateLimitMap'[k] = rateLimitMap[k])
       /\ calls' # calls =>
              /\ rateLimitMap' = rateLimitMap
              /\ calls'[1].pc = "done" =>
                     calls'[1].result
                         = ToolHandler(calls'[1].tool, calls'[1].backend)]_vars

\* The busy key's entry was replaced after its window expired, the other
\* key's entry is still the one made in the first window, and a tool call
\* has run to its end beside them.
C25_Witness ==
    /\ DOMAIN rateLimitMap = Keys
    /\ rateLimitMap[Busy] = [count |-> RATE_LIMIT, start |-> now]
    /\ now > RATE_LIMIT_WINDOW
    /\ rateLimitMap["unknown"] = [count |-> 1, start |-> 0]
    /\ calls[1].pc = "done"

(***************************************************************************)
(* What consumes quota, under SpecQuota.                                   *)
(***************************************************************************)
\* C26: a request rejected with 401 does not consume quota. The step that
\* answers 401 leaves rateLimitMap as it was, and a request that passed the
\* credential check is rate-limited only when more than 100 requests that
\* passed it were counted for its key in the window, however many requests
\* with the same address were answered 401.
C26_UnauthorizedConsumesNothing ==
    [][/\ response' = Unauthorized => rateLimitMap' = rateLimitMap
       /\ response' = TooManyRequests =>
              /\ ~CredentialFails(req', ALLOWED_API_KEY)
              /\ winCalls'[ClientKey(req')] > RATE_LIMIT
       /\ \A k \in DOMAIN rateLimitMap' : rateLimitMap'[k].count <= winCalls'[k]]_vars

\* A request with a wrong key and the address 1.2.3.4 has been answered 401
\* after 40 authorized requests of that address; the entry still counts 40.
C26_Witness ==
    /\ response = Unauthorized
    /\ req.apiKey = "wrong"
    /\ req.ip = "1.2.3.4"
    /\ ALLOWED_API_KEY = "secret"
    /\ winCalls["1.2.3.4"] = 40
    /\ rateLimitMap["1.2.3.4"].count = 40

\* C27: the rate check runs before the origin check. An authorized request
\* rejected with the CORS 403 has been counted like one that passed, so an
\* authorized request is answered 429 exactly when more than 100 authorized
\* requests of its address, whatever their origins, were counted in the
\* window, also when its own origin is allowed; and 429 wins over the CORS
\* 403.
C27_OriginRejectedIsCounted ==
    ReachedRateCheck =>
        /\ last.ip = ClientKey(req)
        /\ response = TooManyRequests <=> winCalls[ClientKey(req)] > RATE_LIMIT
        /\ response = CorsNotAllowed =>
               /\ OriginFails(req)
               /\ ~last.limited
               /\ ClientKey(req) \in DOMAIN rateLimitMap
               /\ rateLimitMap[ClientKey(req)].count = winCalls[ClientKey(req)]

\* The 101st authorized request of 1.2.3.4 in the window comes from the
\* trusted origin and has been answered 429.
C27_Witness ==
    /\ ReachedRateCheck
    /\ req.ip = "1.2.3.4"
    /\ req.origin = "https://your-trusted-origin.com"
    /\ response = TooManyRequests
    /\ winCalls["1.2.3.4"] = RATE_LIMIT + 1

\* C28: when ALLOWED_API_KEY is not configured, VALID_API_KEYS holds only
\* undefined and no request passes the credential check: every https request
\* is answered 401 whatever its x-api-key, absent and empty included, and
\* nothing is counted for it.
C28_UnconfiguredKeyRejectsAll ==
    (ALLOWED_API_KEY = undefined /\ response # NotRun /\ ~TransportFails(req)) =>
        /\ response = Unauthorized
        /\ rateLimitMap = << >>
        /\ last = NoCall

\* Without a configured key, a request carrying the text "undefined" as its
\* key has been answered 401.
C28_Witness ==
    /\ ALLOWED_API_KEY = undefined
    /\ req.proto = "https"
    /\ req.apiKey = "undefined"
    /\ response = Unauthorized

(***************************************************************************)
(* The Drive adapters' backend calls, under SpecShare and SpecDocs.        *)
(***************************************************************************)
\* C29: shareDriveFile makes its backend calls one at a time, for the
\* permissions in list order. Once a call has failed no further call is
\* made: the permissions before the failing one stay on the file, those
\* after it were never attempted, and the value returned is { error } alone,
\* without the results already collected; the handler answers with the
\* error's text.
C29_ShareStopsAtFirstFailure ==
    LET n == Len(share.attempts)
    IN  /\ share.open <= 1
        /\ n <= Len(share.permissions)
        /\ share.attempts = SubSeq(share.permissions, 1, n)
        /\ share.failedAt # 0 =>
               /\ share.pc = "returned"
               /\ share.open = 0
               /\ n = share.failedAt
               /\ SubSeq(share.applied, 1, share.failedAt - 1)
                      = SubSeq(share.permissions, 1, share.failedAt - 1)
               /\ Len(share.results) = share.failedAt - 1
               /\ share.returned.t = "object"
               /\ share.returned.items = <<>>
               /\ share.returned.error = errorMessage(share)
               /\ Handler("Google Drive Share File", Returned(share.returned))
                      = ErrorResult(errorMessage(share))

\* The second of three permissions was rejected: the first is on the file,
\* the third was never sent, and { error: "Not Found" } was returned.
C29_Witness ==
    /\ share.pc = "returned"
    /\ share.permissions = <<"reader:a", "writer:b", "reader:a">>
    /\ share.failedAt = 2
    /\ share.attempts = <<"reader:a", "writer:b">>
    /\ share.applied = <<"reader:a">>
    /\ share.results = <<"reader:a">>
    /\ share.returned = [JsObject EXCEPT !.error = "Not Found"]

\* C30: updateGoogleDocContent sends at most one batch, and none when the
\* read failed. The batch ends with its only insertText, of newContent at
\* index 1; before it comes a deleteContentRange from 1 to endIndex - 1
\* exactly when the document's last endIndex is greater than 2, a missing
\* endIndex counting as 1, so the range never reaches the final newline.
\* { success: true } is returned only if the read and the batch update both
\* succeeded, and { error } otherwise.
C30_OneBatchDeleteThenInsert ==
    doc.pc = "done" =>
        LET d == doc.backend
            endIndex == IF d.absent THEN 1 ELSE d.endIndex
            batch == doc.batches[1]
            insert == batch[Len(batch)]
        IN  /\ Len(doc.batches) = (IF d.fails THEN 0 ELSE 1)
            /\ ~d.fails =>
                   /\ Len(batch) = (IF endIndex > 2 THEN 2 ELSE 1)
                   /\ insert = insertText(1, doc.newContent)
                   /\ endIndex > 2 =>
                          /\ batch[1] = deleteContentRange(1, endIndex - 1)
                          /\ batch[1].endIndex < endIndex
            /\ doc.returned.success = "true" <=> (~d.fails /\ ~d.batchFails)
            /\ doc.returned.success # "true" =>
                   doc.returned = [JsObject EXCEPT !.error = errorMessage(d)]

\* A document whose last element ends at 5 was read and the batch accepted:
\* the batch deleted [1, 4) and then inserted the new text.
C30_Witness ==
    /\ doc.pc = "done"
    /\ ~doc.backend.fails
    /\ ~doc.backend.absent
    /\ doc.backend.endIndex = 5
    /\ doc.newContent = "new text"
    /\ doc.batches = << <<deleteContentRange(1, 4), insertText(1, "new text")>> >>
    /\ doc.returned.success = "true"

====
